---- MODULE Spec2Model ----
(***************************************************************************)
(* State-machine model of src/server.js: the WhatsApp gateway's session    *)
(* globals (client, qrCodeData, isReady, isInitializing), the lifecycle    *)
(* event handlers registered by initializeClient, and the REST handlers.   *)
(* Every `await` of an async handler is a scheduling point: the handler is *)
(* suspended there (an entry of inflight) and other handlers, events and   *)
(* timers may run before it resumes.                                       *)
(***************************************************************************)
EXTENDS Bags, FiniteSets, Integers, Sequences, TLC

\* ------------------------------------------------------------------ bounds
\* How many external clients may be constructed in one run.
MaxClients == 3
\* How many pieces of deferred work (async handlers suspended on an await,
\* plus armed restart timers) may be outstanding at the same time.
MaxPending == 2
\* Longest phone string enumerated for the phone-formatting specification.
MaxLen == 3

\* ------------------------------------------------------------ value spaces
\* `let client;` leaves the variable undefined; restart and logout store null.
Undefined == -1
Null == 0
ClientIds == 1..MaxClients
\* qrCodeData is null or the string of the last qr event.
NoQR == "null"
QRs == {"qr-1"}

\* The characters [0-9] of the regular expression at lines 247 and 310.
Digits == {"0", "1", "2", "3", "4", "5", "6", "7", "8", "9"}
\* The characters phone strings are built from in the model.
Alphabet == {"0", "2", "6", "8", "+"}
Suffix == <<"@", "c", ".", "u", "s">>

\* Request bodies tried by the send endpoints of the session specification.
Phones == {<<>>, <<"0", "+", "8">>}
Messages == {"", "hi"}
MediaUrls == {"", "http://media"}

VARIABLES
    booted,          \* the module's top-level code (line 395) has run
    client,          \* line 10
    qrCodeData,      \* line 11
    isReady,         \* line 12
    isInitializing,  \* line 13
    clients,         \* external clients: "none" | "live" | "destroyed"
    timers,          \* pending setTimeout callbacks of restart (line 162)
    inflight,        \* bag of async handlers suspended on an await
    lastOp,          \* the handler step that ran last
    resp,            \* the HTTP response that step sent, if any
    extCalls,        \* the external-client methods that step invoked
    emitter,         \* the client whose event that step handled, else null
    normIn,          \* phone-formatting specification: the input string
    normOut          \* phone-formatting specification: the computed chatId

vars == <<booted, client, qrCodeData, isReady, isInitializing, clients, timers,
          inflight, lastOp, resp, extCalls, emitter, normIn, normOut>>

\* ---------------------------------------------------------------- helpers
\* JavaScript truthiness of the client variable (undefined and null are falsy).
Truthy(c) == c \notin {Undefined, Null}

Live == {c \in ClientIds : clients[c] = "live"}
Constructed == {c \in ClientIds : clients[c] # "none"}
FreeIds == {c \in ClientIds : clients[c] = "none"}

NoResp == [code |-> 0, status |-> "none", message |-> ""]
Json(code, status, message) == [code |-> code, status |-> status, message |-> message]

\* One invocation of an external-client method: on which client, with which chatId.
Call(method, c, arg) == [method |-> method, on |-> c, arg |-> arg]

\* A suspended handler: which handler, the await it waits at, the client the
\* awaited method was invoked on, and the handler's local formattedPhone.
Susp(h, at, tgt, phone) == [h |-> h, at |-> at, tgt |-> tgt, phone |-> phone]
Put(r) == inflight (+) SetToBag({r})
Take(r) == inflight (-) SetToBag({r})
Suspended == BagToSet(inflight)
\* Room for one more suspended handler or armed timer.
CanSuspend == BagCardinality(inflight) + timers < MaxPending

NormIdle == UNCHANGED <<normIn, normOut>>
\* A step that runs a REST handler or a timer callback, not an event handler.
NotAnEvent == emitter' = Null

\* ------------------------------------------------- phone formatting (pure)
RECURSIVE StripNonDigits(_)
\* phone.replace(/[^0-9]/g, '')
StripNonDigits(s) ==
    IF s = <<>> THEN <<>>
    ELSE IF Head(s) \in Digits THEN <<Head(s)>> \o StripNonDigits(Tail(s))
         ELSE StripNonDigits(Tail(s))

StartsWith(s, p) == Len(s) >= Len(p) /\ SubSeq(s, 1, Len(p)) = p

\* Faulty variant: the country code is put in front of the trunk prefix
\* instead of replacing it.
ReplaceTrunkPrefix_KeepsZero(d) ==
    IF StartsWith(d, <<"0">>) THEN <<"6", "2">> \o d ELSE d
\* if (formattedPhone.startsWith('0')) formattedPhone = '62' + substring(1)
ReplaceTrunkPrefix(d) ==
    IF StartsWith(d, <<"0">>) THEN <<"6", "2">> \o Tail(d) ELSE d

\* Faulty variant: the country code is prepended without the startsWith test.
PrependCountryCode_Always(d) == <<"6", "2">> \o d
\* if (!formattedPhone.startsWith('62')) formattedPhone = '62' + formattedPhone
PrependCountryCode(d) ==
    IF ~StartsWith(d, <<"6", "2">>) THEN <<"6", "2">> \o d ELSE d

\* send-message, lines 246-255
FormatPhone(phone) == PrependCountryCode(ReplaceTrunkPrefix(StripNonDigits(phone)))
\* send-message, line 257
ChatId(phone) == FormatPhone(phone) \o Suffix

\* send-media, lines 309-318 (the same text, written a second time)
FormatPhoneMedia(phone) ==
    LET d0 == StripNonDigits(phone)
        d1 == IF StartsWith(d0, <<"0">>) THEN <<"6", "2">> \o SubSeq(d0, 2, Len(d0)) ELSE d0
    IN  IF ~StartsWith(d1, <<"6", "2">>) THEN <<"6", "2">> \o d1 ELSE d1
\* send-media, line 320
ChatIdMedia(phone) == FormatPhoneMedia(phone) \o Suffix

\* ------------------------------------------------------------------- Init
Init ==
    /\ booted = FALSE
    /\ client = Undefined
    /\ qrCodeData = NoQR
    /\ isReady = FALSE
    /\ isInitializing = FALSE
    /\ clients = [c \in ClientIds |-> "none"]
    /\ timers = 0
    /\ inflight = EmptyBag
    /\ lastOp = "load"
    /\ resp = NoResp
    /\ extCalls = <<>>
    /\ emitter = Null
    /\ normIn = <<>>
    /\ normOut = [by |-> "none", chatId |-> <<>>]

\* -------------------------------------------------------- initializeClient
\* Faulty variant: the re-entrancy guard of line 18 left out.
AlreadyInitializing_Unguarded == FALSE
\* line 18
AlreadyInitializing == isInitializing
\* line 23
AlreadyReady == Truthy(client) /\ isReady
\* initializeClient returns early (lines 18-26).
InitializeSkips == AlreadyInitializing \/ AlreadyReady

\* initializeClient(), lines 16-110: either an early return, or the flags are
\* reset and a new Client is constructed, stored in client and initialized.
InitializeClient ==
    IF InitializeSkips
    THEN /\ UNCHANGED <<client, qrCodeData, isReady, isInitializing, clients>>
         /\ extCalls' = <<>>
    ELSE /\ FreeIds # {}
         /\ LET c == CHOOSE x \in FreeIds : \A y \in FreeIds : x <= y
            IN  /\ isInitializing' = TRUE
                /\ qrCodeData' = NoQR
                /\ isReady' = FALSE
                /\ client' = c
                /\ clients' = [clients EXCEPT ![c] = "live"]
                /\ extCalls' = <<Call("initialize", c, <<>>)>>

\* Faulty variant: line 395 commented out (manual start).
Startup_Manual ==
    /\ ~booted
    /\ booted' = TRUE
    /\ lastOp' = "startup"
    /\ resp' = NoResp
    /\ UNCHANGED <<client, qrCodeData, isReady, isInitializing, clients, extCalls,
                   timers, inflight>>
    /\ NotAnEvent
    /\ NormIdle
\* line 395: the call at the end of the module, before any request is served.
Startup ==
    /\ ~booted
    /\ booted' = TRUE
    /\ InitializeClient
    /\ lastOp' = "startup"
    /\ resp' = NoResp
    /\ UNCHANGED <<timers, inflight>>
    /\ NotAnEvent
    /\ NormIdle

\* The callback of restart's setTimeout, lines 162-164.
RestartTimer ==
    /\ booted
    /\ timers > 0
    /\ timers' = timers - 1
    /\ InitializeClient
    /\ lastOp' = "restart:timer"
    /\ resp' = NoResp
    /\ UNCHANGED <<booted, inflight>>
    /\ NotAnEvent
    /\ NormIdle

\* ------------------------------------------------ lifecycle event handlers
\* Faulty variant: the qr handler forgets to store the artifact.
OnQr_NotStored(q) ==
    /\ qrCodeData' = NoQR
    /\ isInitializing' = FALSE
    /\ UNCHANGED isReady
\* client.on('qr'), lines 55-60
OnQr(q) ==
    /\ qrCodeData' = q
    /\ isInitializing' = FALSE
    /\ UNCHANGED isReady

\* Faulty variant: the ready handler leaves isInitializing as it is.
OnReady_KeepsInitializing ==
    /\ isReady' = TRUE
    /\ qrCodeData' = NoQR
    /\ UNCHANGED isInitializing
\* client.on('ready'), lines 63-68
OnReady ==
    /\ isReady' = TRUE
    /\ qrCodeData' = NoQR
    /\ isInitializing' = FALSE

\* client.on('authenticated'), lines 71-74
OnAuthenticated ==
    /\ qrCodeData' = NoQR
    /\ UNCHANGED <<isReady, isInitializing>>

\* client.on('auth_failure'), lines 77-82
OnAuthFailure ==
    /\ isReady' = FALSE
    /\ qrCodeData' = NoQR
    /\ isInitializing' = FALSE

\* client.on('disconnected'), lines 85-90
OnDisconnected ==
    /\ isReady' = FALSE
    /\ qrCodeData' = NoQR
    /\ isInitializing' = FALSE

\* What every event step leaves alone: the handlers are closures over the
\* globals, registered on the client object c that emits the event.
EventFrame(c, name) ==
    /\ booted
    /\ c \in Live
    /\ lastOp' = name
    /\ resp' = NoResp
    /\ extCalls' = <<>>
    /\ emitter' = c
    /\ UNCHANGED <<booted, client, clients, timers, inflight>>
    /\ NormIdle

EvQr(c, q) == EventFrame(c, "event:qr") /\ OnQr(q)
EvReady(c) == EventFrame(c, "event:ready") /\ OnReady
EvAuthenticated(c) == EventFrame(c, "event:authenticated") /\ OnAuthenticated
EvAuthFailure(c) == EventFrame(c, "event:auth_failure") /\ OnAuthFailure
EvDisconnected(c) == EventFrame(c, "event:disconnected") /\ OnDisconnected

\* ------------------------------------------------------- POST /api/start
\* Faulty variant: the isReady check of line 116 left out.
StartAlreadyReady_Unchecked == FALSE
\* line 116
StartAlreadyReady == isReady
\* line 123
StartInitializing == isInitializing

\* lines 115-142 (synchronous)
PostStart ==
    /\ booted
    /\ lastOp' = "POST /api/start"
    /\ IF StartAlreadyReady
         THEN /\ resp' = Json(200, "info", "WhatsApp client already connected")
              /\ extCalls' = <<>>
              /\ UNCHANGED <<client, qrCodeData, isReady, isInitializing, clients>>
       ELSE IF StartInitializing
         THEN /\ resp' = Json(200, "info", "WhatsApp client is initializing...")
              /\ extCalls' = <<>>
              /\ UNCHANGED <<client, qrCodeData, isReady, isInitializing, clients>>
       ELSE IF ~Truthy(client)
         THEN /\ InitializeClient
              /\ resp' = Json(200, "success", "WhatsApp client started")
         ELSE /\ resp' = Json(200, "info", "WhatsApp client already exists")
              /\ extCalls' = <<>>
              /\ UNCHANGED <<client, qrCodeData, isReady, isInitializing, clients>>
    /\ UNCHANGED <<booted, timers, inflight>>
    /\ NotAnEvent
    /\ NormIdle

\* ----------------------------------------------------- POST /api/restart
\* Faulty variant: line 159 left out, isInitializing survives the restart.
RestartReset_KeepsInitializing ==
    /\ isReady' = FALSE
    /\ qrCodeData' = NoQR
    /\ UNCHANGED isInitializing
    /\ timers' = timers + 1
    /\ resp' = Json(200, "success", "WhatsApp client restarting")
\* Faulty variant: the setTimeout of lines 162-164 left out.
RestartReset_NoTimer ==
    /\ isReady' = FALSE
    /\ qrCodeData' = NoQR
    /\ isInitializing' = FALSE
    /\ UNCHANGED timers
    /\ resp' = Json(200, "success", "WhatsApp client restarting")
\* lines 157-169: reset the flags, arm the timer, answer.
RestartReset ==
    /\ isReady' = FALSE
    /\ qrCodeData' = NoQR
    /\ isInitializing' = FALSE
    /\ timers' = timers + 1
    /\ resp' = Json(200, "success", "WhatsApp client restarting")

\* lines 145-150: with a client the handler suspends on client.destroy();
\* without one it runs to its end in one step.
PostRestart ==
    /\ booted
    /\ CanSuspend
    /\ lastOp' = "POST /api/restart"
    /\ IF Truthy(client)
         THEN /\ inflight' = Put(Susp("restart", "destroy", client, <<>>))
              /\ extCalls' = <<Call("destroy", client, <<>>)>>
              /\ resp' = NoResp
              /\ UNCHANGED <<client, qrCodeData, isReady, isInitializing, timers>>
         ELSE /\ RestartReset
              /\ extCalls' = <<>>
              /\ UNCHANGED <<client, inflight>>
    /\ UNCHANGED <<booted, clients>>
    /\ NotAnEvent
    /\ NormIdle

\* lines 150-169: client.destroy() settled (ok: resolved, the client is gone;
\* not ok: rejected, caught at line 151, the client stays as it was).
RestartDestroySettled(r, ok) ==
    /\ r \in Suspended
    /\ r.h = "restart"
    /\ inflight' = Take(r)
    /\ clients' = IF ok THEN [clients EXCEPT ![r.tgt] = "destroyed"] ELSE clients
    /\ client' = Null
    /\ RestartReset
    /\ lastOp' = IF ok THEN "restart:destroyed" ELSE "restart:destroy-failed"
    /\ extCalls' = <<>>
    /\ UNCHANGED booted
    /\ NotAnEvent
    /\ NormIdle

\* ------------------------------------------------------------ GET /api/qr
\* lines 179-209 (pure read)
QrResponse ==
    IF isReady
      THEN [code |-> 200, status |-> "ready", qr |-> NoQR]
    ELSE IF isInitializing /\ qrCodeData = NoQR
      THEN [code |-> 200, status |-> "initializing", qr |-> NoQR]
    ELSE IF qrCodeData # NoQR
      THEN [code |-> 200, status |-> "success", qr |-> qrCodeData]
    ELSE [code |-> 200, status |-> "waiting", qr |-> NoQR]

GetQr ==
    /\ booted
    /\ lastOp' = "GET /api/qr"
    /\ resp' = QrResponse
    /\ extCalls' = <<>>
    /\ UNCHANGED <<booted, client, qrCodeData, isReady, isInitializing, clients,
                   timers, inflight>>
    /\ NotAnEvent
    /\ NormIdle

\* -------------------------------------------------------- GET /api/status
\* lines 212-225 (pure read)
StatusResponse ==
    [code |-> 200,
     status |-> IF isReady THEN "ready"
                ELSE IF isInitializing THEN "initializing" ELSE "not_ready",
     isReady |-> isReady,
     isInitializing |-> isInitializing,
     hasQR |-> qrCodeData # NoQR,
     hasClient |-> client # Null]

GetStatus ==
    /\ booted
    /\ lastOp' = "GET /api/status"
    /\ resp' = StatusResponse
    /\ extCalls' = <<>>
    /\ UNCHANGED <<booted, client, qrCodeData, isReady, isInitializing, clients,
                   timers, inflight>>
    /\ NotAnEvent
    /\ NormIdle

\* ------------------------------------------------------ POST /api/logout
\* Faulty variant: the else branch resets the flags like the success branch.
LogoutNoSession_Resets ==
    /\ resp' = Json(200, "info", "No active session")
    /\ extCalls' = <<>>
    /\ isReady' = FALSE
    /\ qrCodeData' = NoQR
    /\ isInitializing' = FALSE
    /\ UNCHANGED <<client, inflight>>
\* lines 365-370: the else branch, no client.
LogoutNoSession ==
    /\ resp' = Json(200, "info", "No active session")
    /\ extCalls' = <<>>
    /\ UNCHANGED <<client, qrCodeData, isReady, isInitializing, inflight>>

\* lines 351-354: with a client the handler suspends on client.logout().
PostLogout ==
    /\ booted
    /\ lastOp' = "POST /api/logout"
    /\ IF Truthy(client)
         THEN /\ CanSuspend
              /\ inflight' = Put(Susp("logout", "logout", Null, <<>>))
              /\ extCalls' = <<Call("logout", client, <<>>)>>
              /\ resp' = NoResp
              /\ UNCHANGED <<client, qrCodeData, isReady, isInitializing>>
         ELSE LogoutNoSession
    /\ UNCHANGED <<booted, clients, timers>>
    /\ NotAnEvent
    /\ NormIdle

\* lines 371-376: the catch block of the handler.
LogoutCatch ==
    /\ resp' = Json(500, "error", "error.message")
    /\ UNCHANGED <<client, qrCodeData, isReady, isInitializing, clients>>

\* lines 354-355: client.logout() settled. Rejected: the catch block answers.
\* Resolved: client.destroy() is invoked on whatever the global holds now
\* (a TypeError, caught, when a restart has stored null meanwhile).
LogoutLogoutSettled(r, ok) ==
    /\ r \in Suspended
    /\ r.h = "logout" /\ r.at = "logout"
    /\ IF ~ok
         THEN /\ LogoutCatch
              /\ lastOp' = "logout:logout-failed"
              /\ extCalls' = <<>>
              /\ inflight' = Take(r)
       ELSE IF Truthy(client)
         THEN /\ lastOp' = "logout:logout-resolved"
              /\ extCalls' = <<Call("destroy", client, <<>>)>>
              /\ inflight' = Take(r) (+) SetToBag({Susp("logout", "destroy", client, <<>>)})
              /\ resp' = NoResp
              /\ UNCHANGED <<client, qrCodeData, isReady, isInitializing, clients>>
         ELSE /\ LogoutCatch
              /\ lastOp' = "logout:logout-resolved"
              /\ extCalls' = <<>>
              /\ inflight' = Take(r)
    /\ UNCHANGED <<booted, timers>>
    /\ NotAnEvent
    /\ NormIdle

\* lines 356-364: the state reset after both awaits resolved.
LogoutReset(c) ==
    /\ clients' = [clients EXCEPT ![c] = "destroyed"]
    /\ client' = Null
    /\ isReady' = FALSE
    /\ qrCodeData' = NoQR
    /\ isInitializing' = FALSE
    /\ resp' = Json(200, "success", "Logged out successfully")

\* lines 355-364: client.destroy() settled.
LogoutDestroySettled(r, ok) ==
    /\ r \in Suspended
    /\ r.h = "logout" /\ r.at = "destroy"
    /\ inflight' = Take(r)
    /\ extCalls' = <<>>
    /\ IF ok
         THEN /\ LogoutReset(r.tgt)
              /\ lastOp' = "logout:destroyed"
         ELSE /\ LogoutCatch
              /\ lastOp' = "logout:destroy-failed"
    /\ UNCHANGED <<booted, timers>>
    /\ NotAnEvent
    /\ NormIdle

\* ------------------------------------------------- POST /api/send-message
\* Faulty variant: the readiness check of line 230 left out.
SendNotReady_Unchecked == FALSE
\* line 230
SendNotReady == ~isReady
\* lines 231-234 and 294-297
NotReadyResponse == Json(400, "error", "WhatsApp is not ready")
\* line 239: !phone || !message (the empty string is falsy)
MissingField(phone, other) == phone = <<>> \/ other = ""
\* lines 281-287 and 341-347: the catch block of both send handlers.
SendCatch == Json(500, "error", "error.message")

\* What a send step that answers at once leaves alone.
SendFrame ==
    /\ booted
    /\ UNCHANGED <<booted, client, qrCodeData, isReady, isInitializing, clients, timers>>
    /\ NotAnEvent
    /\ NormIdle

\* lines 228-260, up to the await of client.isRegisteredUser(chatId).
PostSendMessage(phone, message) ==
    /\ SendFrame
    /\ lastOp' = "POST /api/send-message"
    /\ IF SendNotReady
         THEN /\ resp' = NotReadyResponse
              /\ extCalls' = <<>>
              /\ UNCHANGED inflight
       ELSE IF MissingField(phone, message)
         THEN /\ resp' = Json(400, "error", "Phone and message are required")
              /\ extCalls' = <<>>
              /\ UNCHANGED inflight
       ELSE IF Truthy(client)
         THEN /\ CanSuspend
              /\ extCalls' = <<Call("isRegisteredUser", client, ChatId(phone))>>
              /\ inflight' = Put(Susp("send-message", "isRegisteredUser", Null,
                                      FormatPhone(phone)))
              /\ resp' = NoResp
         ELSE /\ resp' = SendCatch
              /\ extCalls' = <<>>
              /\ UNCHANGED inflight

\* lines 262-267
UnregisteredResponse == Json(400, "error", "Phone number is not registered on WhatsApp")

\* The step named after what isRegisteredUser settled with.
CheckedOp(result) ==
    IF result = "throw" THEN "send-message:isRegisteredUser-threw"
    ELSE IF result = "false" THEN "send-message:isRegisteredUser-false"
    ELSE "send-message:isRegisteredUser-true"
\* Faulty variant: the result of the registration check is ignored.
NotRegistered_Ignored(result) == FALSE
\* line 262: if (!isRegistered)
NotRegistered(result) == result = "false"

\* lines 260-270: isRegisteredUser settled with true, false or a rejection;
\* on true, client.sendMessage is invoked on whatever the global holds now.
SendMessageChecked(r, result) ==
    /\ SendFrame
    /\ r \in Suspended
    /\ r.h = "send-message" /\ r.at = "isRegisteredUser"
    /\ lastOp' = CheckedOp(result)
    /\ IF result = "throw"
         THEN /\ resp' = SendCatch
              /\ extCalls' = <<>>
              /\ inflight' = Take(r)
       ELSE IF NotRegistered(result)
         THEN /\ resp' = UnregisteredResponse
              /\ extCalls' = <<>>
              /\ inflight' = Take(r)
       ELSE IF Truthy(client)
         THEN /\ resp' = NoResp
              /\ extCalls' = <<Call("sendMessage", client, r.phone \o Suffix)>>
              /\ inflight' = Take(r) (+) SetToBag({Susp("send-message", "sendMessage",
                                                        Null, r.phone)})
         ELSE /\ resp' = SendCatch
              /\ extCalls' = <<>>
              /\ inflight' = Take(r)

\* lines 272-279 and 332-339
SentResponse(phone) ==
    [code |-> 200, status |-> "success", message |-> "sent", phone |-> phone]

\* lines 270-287: client.sendMessage settled.
SendMessageSent(r, ok) ==
    /\ SendFrame
    /\ r \in Suspended
    /\ r.h = "send-message" /\ r.at = "sendMessage"
    /\ inflight' = Take(r)
    /\ extCalls' = <<>>
    /\ lastOp' = IF ok THEN "send-message:sent" ELSE "send-message:send-failed"
    /\ resp' = IF ok THEN SentResponse(r.phone) ELSE SendCatch

\* --------------------------------------------------- POST /api/send-media
\* line 293
MediaNotReady == ~isReady

\* lines 291-326, up to the await of MessageMedia.fromUrl(mediaUrl).
PostSendMedia(phone, mediaUrl) ==
    /\ SendFrame
    /\ lastOp' = "POST /api/send-media"
    /\ extCalls' = <<>>
    /\ IF MediaNotReady
         THEN /\ resp' = NotReadyResponse
              /\ UNCHANGED inflight
       ELSE IF MissingField(phone, mediaUrl)
         THEN /\ resp' = Json(400, "error", "Phone and mediaUrl are required")
              /\ UNCHANGED inflight
         ELSE /\ CanSuspend
              /\ inflight' = Put(Susp("send-media", "fromUrl", Null,
                                      FormatPhoneMedia(phone)))
              /\ resp' = NoResp

\* lines 324-330: the media fetch settled; on success client.sendMessage is
\* invoked on whatever the global holds now.
SendMediaFetched(r, ok) ==
    /\ SendFrame
    /\ r \in Suspended
    /\ r.h = "send-media" /\ r.at = "fromUrl"
    /\ lastOp' = IF ok THEN "send-media:fetched" ELSE "send-media:fetch-failed"
    /\ IF ~ok
         THEN /\ resp' = SendCatch
              /\ extCalls' = <<>>
              /\ inflight' = Take(r)
       ELSE IF Truthy(client)
         THEN /\ resp' = NoResp
              /\ extCalls' = <<Call("sendMessage", client, r.phone \o Suffix)>>
              /\ inflight' = Take(r) (+) SetToBag({Susp("send-media", "sendMessage",
                                                        Null, r.phone)})
         ELSE /\ resp' = SendCatch
              /\ extCalls' = <<>>
              /\ inflight' = Take(r)

\* lines 328-347: client.sendMessage settled.
SendMediaSent(r, ok) ==
    /\ SendFrame
    /\ r \in Suspended
    /\ r.h = "send-media" /\ r.at = "sendMessage"
    /\ inflight' = Take(r)
    /\ extCalls' = <<>>
    /\ lastOp' = IF ok THEN "send-media:sent" ELSE "send-media:send-failed"
    /\ resp' = IF ok THEN SentResponse(r.phone) ELSE SendCatch

\* ------------------------------------------------------- the specification
Next ==
    \/ Startup
    \/ RestartTimer
    \/ \E c \in ClientIds, q \in QRs : EvQr(c, q)
    \/ \E c \in ClientIds : EvReady(c)
    \/ \E c \in ClientIds : EvAuthenticated(c)
    \/ \E c \in ClientIds : EvAuthFailure(c)
    \/ \E c \in ClientIds : EvDisconnected(c)
    \/ PostStart
    \/ PostRestart
    \/ \E r \in Suspended, ok \in BOOLEAN : RestartDestroySettled(r, ok)
    \/ GetQr
    \/ GetStatus
    \/ PostLogout
    \/ \E r \in Suspended, ok \in BOOLEAN : LogoutLogoutSettled(r, ok)
    \/ \E r \in Suspended, ok \in BOOLEAN : LogoutDestroySettled(r, ok)
    \/ \E p \in Phones, m \in Messages : PostSendMessage(p, m)
    \/ \E r \in Suspended, res \in {"true", "false", "throw"} : SendMessageChecked(r, res)
    \/ \E r \in Suspended, ok \in BOOLEAN : SendMessageSent(r, ok)
    \/ \E p \in Phones, u \in MediaUrls : PostSendMedia(p, u)
    \/ \E r \in Suspended, ok \in BOOLEAN : SendMediaFetched(r, ok)
    \/ \E r \in Suspended, ok \in BOOLEAN : SendMediaSent(r, ok)

Spec == Init /\ [][Next]_vars

\* ------------------------------------- the phone-formatting specification
Strings == UNION {[1..k -> Alphabet] : k \in 0..MaxLen}

InitNorm ==
    /\ booted = FALSE
    /\ client = Undefined
    /\ qrCodeData = NoQR
    /\ isReady = FALSE
    /\ isInitializing = FALSE
    /\ clients = [c \in ClientIds |-> "none"]
    /\ timers = 0
    /\ inflight = EmptyBag
    /\ lastOp = "load"
    /\ resp = NoResp
    /\ extCalls = <<>>
    /\ emitter = Null
    /\ normIn \in Strings
    /\ normOut = [by |-> "none", chatId |-> <<>>]

NormFrame ==
    UNCHANGED <<booted, client, qrCodeData, isReady, isInitializing, clients, timers,
                inflight, lastOp, resp, extCalls, emitter, normIn>>

\* The formatting of send-message applied to the input, lines 246-257.
NormSendMessage ==
    /\ normOut.by # "send-message"
    /\ normOut' = [by |-> "send-message", chatId |-> ChatId(normIn)]
    /\ NormFrame

\* The formatting of send-media applied to the input, lines 309-320.
NormSendMedia ==
    /\ normOut.by # "send-media"
    /\ normOut' = [by |-> "send-media", chatId |-> ChatIdMedia(normIn)]
    /\ NormFrame

NextNorm == NormSendMessage \/ NormSendMedia

NormSpec == InitNorm /\ [][NextNorm]_vars

\* The session specification with the timer of setTimeout (line 162) firing:
\* an armed timer whose callback can run does run.
FairSpec == Spec /\ WF_vars(RestartTimer)

\* ================================================================ claims
StartCommands == {"POST /api/start", "restart:timer"}
SendRequests == {"POST /api/send-message", "POST /api/send-media"}

\* C1: a start command (POST /api/start, or the direct initializeClient call of
\* the restart timer) that runs while isInitializing is true constructs no
\* client: the set of constructed clients is the same after the step.
C1_NoClientWhileInitializing ==
    [][(isInitializing /\ lastOp' \in StartCommands) => Constructed' = Constructed]_vars
\* The restart timer fired while a client was initializing, and returned early.
C1_Witness ==
    /\ lastOp = "restart:timer"
    /\ isInitializing
    /\ extCalls = <<>>
    /\ Cardinality(Constructed) = 2

\* C2: at most one external client that was constructed and is not yet
\* destroyed exists at any time.
C2_AtMostOneLiveClient == Cardinality(Live) <= 1

\* C3: a send request handled while isReady is false is answered with the
\* NotReady error (HTTP 400, status "error"), invokes no external-client
\* method and leaves no handler suspended, whatever its body.
C3_NotReadyRejected ==
    [][(~isReady /\ lastOp' \in SendRequests) =>
          /\ resp'.code = 400
          /\ resp'.status = "error"
          /\ resp' = NotReadyResponse
          /\ extCalls' = <<>>
          /\ inflight' = inflight]_vars
\* A send-message request was answered NotReady.
C3_Witness ==
    /\ lastOp = "POST /api/send-message"
    /\ ~isReady
    /\ resp = NotReadyResponse

\* C4: in the state left by a ready event GET /api/qr answers qr = null, and
\* in the state left by a qr event GET /api/status answers hasQR = true.
C4_ReadAfterEvent ==
    /\ lastOp = "event:ready" => QrResponse.qr = NoQR
    /\ lastOp = "event:qr" => StatusResponse.hasQR = TRUE
\* A qr event has just stored its artifact.
C4_Witness ==
    /\ lastOp = "event:qr"
    /\ qrCodeData \in QRs
    /\ StatusResponse.hasQR

\* C5: when the external logout or destroy call of a logout command fails, or
\* the destroy call of a restart command fails, the command still ends with
\* client = null and the flags reset.
FailedTeardowns ==
    {"logout:logout-failed", "logout:destroy-failed", "restart:destroy-failed"}
C5_FailureDoesNotAbort ==
    lastOp \in FailedTeardowns =>
        /\ client = Null
        /\ ~isReady
        /\ ~isInitializing
        /\ qrCodeData = NoQR

\* C6: POST /api/start handled while the session is Initializing or Ready
\* answers with status "info", constructs no client and leaves client,
\* isReady, isInitializing and qrCodeData unchanged.
C6_RedundantStartIsNoOp ==
    [][((isReady \/ isInitializing) /\ lastOp' = "POST /api/start") =>
          /\ resp'.status = "info"
          /\ resp'.code = 200
          /\ Constructed' = Constructed
          /\ extCalls' = <<>>
          /\ UNCHANGED <<client, isReady, isInitializing, qrCodeData>>]_vars
\* A start was answered "is initializing".
C6_Witness ==
    /\ lastOp = "POST /api/start"
    /\ isInitializing
    /\ resp = Json(200, "info", "WhatsApp client is initializing...")

\* What C7 expects GET /api/status to report.
SettlingView == ~StatusResponse.isInitializing /\ ~StatusResponse.hasClient
RestartAnswered ==
    /\ lastOp \in {"POST /api/restart", "restart:destroyed", "restart:destroy-failed"}
    /\ resp.status = "success"

\* C7 as stated: while a restart has answered and its delayed
\* re-initialization has not run yet (its timer is armed), GET /api/status
\* reports isInitializing = false and hasClient = false.
C7_Original == timers > 0 => SettlingView

\* C7 amended: the restart answers with status "success" and GET /api/status
\* reports isInitializing = false and hasClient = false right after the answer,
\* and goes on reporting so across every step that is not an initializeClient
\* call (a POST /api/start or a re-initialization timer).
C7_Amended ==
    [][/\ RestartAnswered' => SettlingView'
       /\ lastOp' \in {"restart:destroyed", "restart:destroy-failed"} =>
              resp'.status = "success"
       /\ (SettlingView /\ lastOp' \notin StartCommands) => SettlingView']_vars
\* A restart of an initializing session has answered; its timer is armed.
C7_Witness ==
    /\ RestartAnswered
    /\ lastOp = "restart:destroyed"
    /\ timers > 0
    /\ SettlingView

\* C8: when isRegisteredUser reports false for a send-message request, the
\* request is answered HTTP 400 with status "error" and sendMessage is not
\* invoked: the step makes no external call and the handler is finished.
C8_UnregisteredRejected ==
    [][lastOp' = "send-message:isRegisteredUser-false" =>
          /\ resp'.code = 400
          /\ resp'.status = "error"
          /\ extCalls' = <<>>
          /\ BagCardinality(inflight') = BagCardinality(inflight) - 1]_vars
\* The registration check came back false.
C8_Witness ==
    /\ lastOp = "send-message:isRegisteredUser-false"
    /\ resp = UnregisteredResponse

\* C9: POST /api/logout handled while no client is held answers with status
\* "info", changes none of client, isReady, isInitializing, qrCodeData and
\* invokes no external-client method.
C9_LogoutWithoutSession ==
    [][(~Truthy(client) /\ lastOp' = "POST /api/logout") =>
          /\ resp'.status = "info"
          /\ resp'.code = 200
          /\ extCalls' = <<>>
          /\ inflight' = inflight
          /\ UNCHANGED <<client, isReady, isInitializing, qrCodeData, clients>>]_vars
\* A logout without a client was answered while the stale flag isReady is set.
C9_Witness ==
    /\ lastOp = "POST /api/logout"
    /\ resp.status = "info"
    /\ client = Null
    /\ isReady

\* C10: formatting is total and idempotent: the formatting of either send
\* endpoint, applied to the digits of a chatId it produced, gives that chatId
\* again, and every input yields a chatId (62, digits, the suffix).
WellFormed(chatId) ==
    /\ Len(chatId) >= 2 + Len(Suffix)
    /\ StartsWith(chatId, <<"6", "2">>)
    /\ SubSeq(chatId, Len(chatId) - Len(Suffix) + 1, Len(chatId)) = Suffix
C10_Idempotent ==
    /\ normOut.by = "send-message" =>
           /\ WellFormed(normOut.chatId)
           /\ ChatId(StripNonDigits(normOut.chatId)) = normOut.chatId
    /\ normOut.by = "send-media" =>
           /\ WellFormed(normOut.chatId)
           /\ ChatIdMedia(StripNonDigits(normOut.chatId)) = normOut.chatId
\* An input that already starts with the country code has been formatted.
C10_Witness ==
    /\ normOut.by = "send-message"
    /\ normIn = <<"6", "2", "+">>
    /\ normOut.chatId = <<"6", "2">> \o Suffix

\* The reference normalizer of C11: strip the non-digits; a leading 0 is
\* replaced by 62, else 62 is prepended unless already there; append @c.us.
ReferenceNormalize(x) ==
    LET d == StripNonDigits(x)
    IN  (IF d # <<>> /\ d[1] = "0" THEN <<"6", "2">> \o SubSeq(d, 2, Len(d))
         ELSE IF Len(d) >= 2 /\ d[1] = "6" /\ d[2] = "2" THEN d
         ELSE <<"6", "2">> \o d) \o Suffix
Example0 == <<"0", "8", "1", "2", "3", "4", "5", "6", "7", "8", "9", "0">>
Example62 == <<"6", "2", "8", "1", "2", "3", "4", "5", "6", "7", "8", "9", "0">>
Example8 == <<"8", "1", "2", "3", "4", "5", "6", "7", "8", "9", "0">>

\* C11: the chatId either send endpoint computes equals the reference
\* normalizer's, so it has the form 62<digits>@c.us, both endpoints agree on
\* every input, and the three example numbers map to 6281234567890@c.us.
C11_MatchesReference ==
    normOut.by # "none" =>
        /\ normOut.chatId = ReferenceNormalize(normIn)
        /\ ChatId(normIn) = ChatIdMedia(normIn)
        /\ WellFormed(normOut.chatId)
        /\ \A e \in {Example0, Example62, Example8} :
               /\ ChatId(e) = Example62 \o Suffix
               /\ ChatIdMedia(e) = Example62 \o Suffix
\* send-media formatted an input with a trunk prefix and a non-digit.
C11_Witness ==
    /\ normOut.by = "send-media"
    /\ normIn = <<"0", "+", "8">>
    /\ normOut.chatId = <<"6", "2", "8">> \o Suffix

\* The external-client calls of the last step with one of the given methods.
CallsOf(methods) == {i \in DOMAIN extCalls : extCalls[i].method \in methods}
MediaSteps ==
    {"POST /api/send-media", "send-media:fetched", "send-media:fetch-failed",
     "send-media:sent", "send-media:send-failed"}
TerminalEvents == {"event:auth_failure", "event:disconnected"}

\* C12: whenever a send request invokes isRegisteredUser or sendMessage on the
\* external client, a client is held and isReady is true at that moment (the
\* send steps do not change either, so the state left by the step shows it).
C12_CallsOnlyWhenReady ==
    CallsOf({"isRegisteredUser", "sendMessage"}) # {} => (Truthy(client) /\ isReady)

\* C13: a send-message request that passed the Ready check with a client held
\* and whose registration check resolved true reaches sendMessage, also when a
\* restart or logout has run while it was suspended.
C13_InFlightSendReachesTransport ==
    lastOp = "send-message:isRegisteredUser-true" => CallsOf({"sendMessage"}) # {}

\* C14: POST /api/start handled in the state an auth_failure or disconnected
\* event has left puts the session in Initializing and constructs a fresh
\* client.
C14_StartAfterTerminalEvent ==
    [][(lastOp \in TerminalEvents /\ lastOp' = "POST /api/start") =>
          /\ isInitializing'
          /\ Constructed' # Constructed
          /\ client' \notin Constructed]_vars

\* C15: once a restart has answered, its timer runs initializeClient (unless
\* the model has no client left to construct), and in the state the timer
\* callback leaves a client is held.
C15_RestartReissuesStart ==
    /\ RestartAnswered ~> (lastOp = "restart:timer" \/ FreeIds = {})
    /\ [](lastOp = "restart:timer" => Truthy(client))
\* The timer callback has constructed a fresh client.
C15_Witness ==
    /\ lastOp = "restart:timer"
    /\ CallsOf({"initialize"}) # {}
    /\ Truthy(client)
    /\ isInitializing

\* C16: no step of send-media invokes isRegisteredUser, and the step that
\* follows a successful media fetch invokes sendMessage.
C16_MediaSkipsRegistration ==
    /\ lastOp \in MediaSteps => CallsOf({"isRegisteredUser"}) = {}
    /\ lastOp = "send-media:fetched" => CallsOf({"sendMessage"}) # {}

\* C17 as stated: before any command or event has been handled (the module has
\* just been loaded) no client is held, the session is not Initializing and
\* no client has been constructed.
C17_Original ==
    lastOp \in {"load", "startup"} =>
        /\ ~Truthy(client)
        /\ ~isInitializing
        /\ Constructed = {}

\* C17 amended: the globals are declared Uninitialized, and the module's own
\* initializeClient() call at startup constructs the first client and sets
\* Initializing before any command or event is handled.
C17_Amended ==
    /\ ~booted =>
           /\ lastOp = "load"
           /\ client = Undefined
           /\ ~isInitializing /\ ~isReady /\ qrCodeData = NoQR
           /\ Constructed = {}
    /\ lastOp = "startup" =>
           /\ client = 1
           /\ isInitializing /\ ~isReady
           /\ Constructed = {1}
    /\ booted => 1 \in Constructed
\* The startup call has constructed the first client.
C17_Witness ==
    /\ lastOp = "startup"
    /\ isInitializing
    /\ client = 1
    /\ CallsOf({"initialize"}) # {}

\* C18: isReady and isInitializing are never true at the same time.
C18_NotReadyAndInitializing == ~(isReady /\ isInitializing)
\* A ready event of a client that is not the held one arrived while the held
\* client was initializing.
C18_Witness ==
    /\ lastOp = "event:ready"
    /\ emitter # client
    /\ Truthy(client)
    /\ Cardinality(Live) = 2
    /\ isReady

\* C19: whenever isReady or isInitializing is true, a client is held.
C19_FlagsImplyClient == (isReady \/ isInitializing) => Truthy(client)

\* C20: an event of a client that is not the one held in client changes none
\* of isReady, isInitializing and qrCodeData.
C20_StaleEventsIgnored ==
    [][(emitter' # Null /\ emitter' # client) =>
          UNCHANGED <<isReady, isInitializing, qrCodeData>>]_vars
====
